---- MODULE Spec2Model ----
(***************************************************************************)
(* Observable execution wrapper of digitalhub-serverless                   *)
(* (pkg/processor/runtime/python/py/observable_executor.py).               *)
(*                                                                         *)
(* The module models                                                       *)
(*   - initialize_opentelemetry and HTTPProfileProcessor.init_profile,     *)
(*     which write the fields of the shared context one setattr at a time; *)
(*   - execute_callable / _execute_measured, one process per invocation,   *)
(*     stepping through span start, request processing, the handler call,  *)
(*     response processing, the except and the finally clause;             *)
(*   - HTTPProfileProcessor.process_request / process_response as          *)
(*     operators over Python values, with the failures they can raise.     *)
(*                                                                         *)
(* Python strings and byte strings are sequences of one-character strings, *)
(* so that lower(), split(), strip(), len(), int() and urlparse() are      *)
(* computed and not assumed.                                               *)
(***************************************************************************)
EXTENDS Integers, Sequences, FiniteSets, TLC

(***************************************************************************)
(* Bounds of the model.                                                    *)
(***************************************************************************)
MaxInv == 2
MaxInits == 2
MaxProfiles == 2

(***************************************************************************)
(* Python values.  A value is a record [t, i, s]: t the type, i the        *)
(* integer payload (int and bool values, the number of entries of a dict), *)
(* s the character payload (str and bytes values).                         *)
(***************************************************************************)
PyStr(s) == [t |-> "str", i |-> 0, s |-> s]
PyBytes(s) == [t |-> "bytes", i |-> 0, s |-> s]
PyInt(n) == [t |-> "int", i |-> n, s |-> <<>>]
PyNone == [t |-> "None", i |-> 0, s |-> <<>>]

\* bool(v): the truth value Python gives v in `if v:` and `v or w`.
Truthy(v) ==
    CASE v.t \in {"str", "bytes"} -> Len(v.s) > 0
      [] v.t \in {"int", "bool", "dict"} -> v.i # 0
      [] OTHER -> FALSE

\* len(v) is defined for str, bytes and dict; it raises TypeError otherwise.
HasLen(v) == v.t \in {"str", "bytes", "dict"}
PyLen(v) == IF v.t = "dict" THEN v.i ELSE Len(v.s)

(***************************************************************************)
(* Character helpers.                                                      *)
(***************************************************************************)
UpperChars == <<"A","B","C","D","E","F","G","H","I","J","K","L","M",
                "N","O","P","Q","R","S","T","U","V","W","X","Y","Z">>
LowerChars == <<"a","b","c","d","e","f","g","h","i","j","k","l","m",
                "n","o","p","q","r","s","t","u","v","w","x","y","z">>
DigitChars == <<"0","1","2","3","4","5","6","7","8","9">>

Range(q) == {q[k] : k \in 1..Len(q)}
IndexIn(q, c) == CHOOSE k \in 1..Len(q) : q[k] = c

IsDigit(c) == c \in Range(DigitChars)
IsSpace(c) == c \in {" ", "\t", "\n", "\r"}

\* str.lower(), character by character.
LowerChar(c) == IF c \in Range(UpperChars) THEN LowerChars[IndexIn(UpperChars, c)] ELSE c
Lower(s) == [k \in 1..Len(s) |-> LowerChar(s[k])]

\* str.find(c): first index of character c in s (1-based), 0 when absent.
Find(s, c) ==
    IF \E k \in 1..Len(s) : s[k] = c
    THEN CHOOSE k \in 1..Len(s) : s[k] = c /\ \A j \in 1..(k-1) : s[j] # c
    ELSE 0

\* str.rfind(c): last index of character c in s (1-based), 0 when absent.
RFind(s, c) ==
    IF \E k \in 1..Len(s) : s[k] = c
    THEN CHOOSE k \in 1..Len(s) : s[k] = c /\ \A j \in (k+1)..Len(s) : s[j] # c
    ELSE 0

Before(s, k) == SubSeq(s, 1, k - 1)
After(s, k) == SubSeq(s, k + 1, Len(s))

\* str.strip(): drop leading and trailing whitespace.
RECURSIVE LStrip(_)
LStrip(s) == IF Len(s) > 0 /\ IsSpace(s[1]) THEN LStrip(Tail(s)) ELSE s
RECURSIVE RStrip(_)
RStrip(s) ==
    IF Len(s) > 0 /\ IsSpace(s[Len(s)]) THEN RStrip(SubSeq(s, 1, Len(s) - 1)) ELSE s
Strip(s) == RStrip(LStrip(s))

\* str.split(","): the pieces between commas; "" splits into [""].
RECURSIVE Split(_, _)
Split(s, c) ==
    LET k == Find(s, c)
    IN  IF k = 0 THEN <<s>> ELSE <<Before(s, k)>> \o Split(After(s, k), c)

\* The decimal value of a string of digits.
RECURSIVE DigitsVal(_)
DigitsVal(s) ==
    IF Len(s) = 0 THEN 0
    ELSE 10 * DigitsVal(SubSeq(s, 1, Len(s) - 1)) + (IndexIn(DigitChars, s[Len(s)]) - 1)

AllDigits(s) == Len(s) > 0 /\ \A k \in 1..Len(s) : IsDigit(s[k])

\* A character sequence with every occurrence of character c removed.
RECURSIVE Without(_, _)
Without(s, c) ==
    IF Len(s) = 0 THEN <<>>
    ELSE (IF s[1] = c THEN <<>> ELSE <<s[1]>>) \o Without(Tail(s), c)

\* int(s) for a str s: surrounding whitespace is dropped, one sign is allowed,
\* then digits, with single underscores allowed between digits.  IntParses is
\* FALSE where int() raises ValueError.
IntBody(s) ==
    LET t == Strip(s)
    IN  IF Len(t) > 0 /\ t[1] \in {"+", "-"} THEN Tail(t) ELSE t
IntParses(s) ==
    LET b == IntBody(s)
    IN  /\ Len(b) > 0
        /\ \A k \in 1..Len(b) : IsDigit(b[k]) \/ b[k] = "_"
        /\ IsDigit(b[1]) /\ IsDigit(b[Len(b)])
        /\ \A k \in 1..(Len(b) - 1) : ~(b[k] = "_" /\ b[k+1] = "_")
IntOf(s) ==
    LET t == Strip(s)
        v == DigitsVal(Without(IntBody(s), "_"))
    IN  IF Len(t) > 0 /\ t[1] = "-" THEN 0 - v ELSE v

(***************************************************************************)
(* urllib.parse.urlparse, for a str URL without brackets: scheme, netloc,  *)
(* path, params, query and fragment are split off in the order the library *)
(* splits them; hostname and port are the properties of the result.        *)
(***************************************************************************)
\* urlsplit: the scheme is the text before the first ":" when that text
\* starts with a letter and holds scheme characters only.
SplitScheme(u) ==
    IF /\ Find(u, ":") > 1
       /\ u[1] \in Range(UpperChars) \cup Range(LowerChars)
       /\ \A k \in 1..(Find(u, ":") - 1) : u[k] \in Range(UpperChars) \cup Range(LowerChars)
                                                     \cup Range(DigitChars) \cup {"+", "-", "."}
    THEN [scheme |-> Lower(Before(u, Find(u, ":"))), rest |-> After(u, Find(u, ":"))]
    ELSE [scheme |-> <<>>, rest |-> u]

\* _splitnetloc: after "//", the netloc runs up to the first of "/", "?", "#".
NetlocEnd(r) ==
    IF \E k \in 3..Len(r) : r[k] \in {"/", "?", "#"}
    THEN CHOOSE k \in 3..Len(r) :
             /\ r[k] \in {"/", "?", "#"}
             /\ \A j \in 3..(k - 1) : r[j] \notin {"/", "?", "#"}
    ELSE Len(r) + 1
SplitNetloc(p) ==
    IF Len(p.rest) >= 2 /\ p.rest[1] = "/" /\ p.rest[2] = "/"
    THEN [scheme |-> p.scheme,
          netloc |-> SubSeq(p.rest, 3, NetlocEnd(p.rest) - 1),
          rest |-> SubSeq(p.rest, NetlocEnd(p.rest), Len(p.rest))]
    ELSE [scheme |-> p.scheme, netloc |-> <<>>, rest |-> p.rest]

\* The fragment is cut at the first "#", then the query at the first "?".
CutAt(s, k) == IF k > 0 THEN Before(s, k) ELSE s
TakeAfter(s, k) == IF k > 0 THEN After(s, k) ELSE <<>>
SplitFragment(p) == [p EXCEPT !.rest = CutAt(@, Find(@, "#"))]
SplitQuery(p) ==
    [scheme |-> p.scheme, netloc |-> p.netloc,
     path |-> CutAt(p.rest, Find(p.rest, "?")),
     query |-> TakeAfter(p.rest, Find(p.rest, "?"))]

\* urlparse: for the schemes that use params, the path ends at the first ";"
\* of its last segment (_splitparams).
ParamsAt(r, lastSlash) ==
    IF \E k \in (lastSlash + 1)..Len(r) : r[k] = ";"
    THEN CHOOSE k \in (lastSlash + 1)..Len(r) :
             r[k] = ";" /\ \A j \in (lastSlash + 1)..(k - 1) : r[j] # ";"
    ELSE 0
SplitParams(p) ==
    IF p.scheme \in {<<>>, <<"f","t","p">>, <<"h","t","t","p">>,
                   <<"h","t","t","p","s">>}
    THEN [p EXCEPT !.path = CutAt(@, ParamsAt(@, RFind(@, "/")))]
    ELSE p

\* urlparse(url): [scheme, netloc, path, query]
urlparse(u) == SplitParams(SplitQuery(SplitFragment(SplitNetloc(SplitScheme(u)))))

\* _hostinfo: the netloc after its last "@", split at the first ":".
UrlHostInfo(n) == IF RFind(n, "@") > 0 THEN After(n, RFind(n, "@")) ELSE n
UrlHostText(n) == CutAt(UrlHostInfo(n), Find(UrlHostInfo(n), ":"))
UrlPortText(n) == TakeAfter(UrlHostInfo(n), Find(UrlHostInfo(n), ":"))

\* .hostname: the lower-cased host, None when the host is empty.
UrlHostname(pu) ==
    IF Len(UrlHostText(pu.netloc)) = 0 THEN PyNone
    ELSE PyStr(Lower(UrlHostText(pu.netloc)))

\* .port: None when no port is given; ValueError when the port is not a
\* string of digits or is above 65535.
UrlPortRaises(pu) ==
    /\ Len(UrlPortText(pu.netloc)) > 0
    /\ \/ ~AllDigits(UrlPortText(pu.netloc))
       \/ DigitsVal(UrlPortText(pu.netloc)) > 65535
UrlPort(pu) ==
    IF Len(UrlPortText(pu.netloc)) = 0 THEN PyNone
    ELSE PyInt(DigitsVal(UrlPortText(pu.netloc)))

(***************************************************************************)
(* The Execution Context.  A field of the context is a record              *)
(* [st, gen, val]: st is "unset" (the attribute does not exist), "None" or *)
(* "set"; gen is the number of the initialize_opentelemetry call that set  *)
(* it; val is the flag of content_tracing_enabled, the sequence of         *)
(* processors of profile_processors, and 0 for a handle.                   *)
(***************************************************************************)
UnsetField(v) == [st |-> "unset", gen |-> 0, val |-> v]
NoneField == [st |-> "None", gen |-> 0, val |-> 0]
Handle(g) == [st |-> "set", gen |-> g, val |-> 0]
SetField(g, v) == [st |-> "set", gen |-> g, val |-> v]

\* `if handle:` on a field that holds None or an instrument.
FieldTruthy(f) == f.st = "set"

(***************************************************************************)
(* Attribute names.  A key of the AttributeSet is a sequence of strings:   *)
(* <<name>> for a fixed name, and the template, a dot and the lower-cased  *)
(* characters of the header name for a header attribute.                   *)
(***************************************************************************)
http_attributes ==
    [HTTP_REQUEST_METHOD |-> <<"http.request.method">>,
     HTTP_ROUTE |-> <<"http.route">>,
     HTTP_RESPONSE_STATUS_CODE |-> <<"http.response.status_code">>,
     HTTP_REQUEST_HEADER_TEMPLATE |-> "http.request.header",
     HTTP_RESPONSE_HEADER_TEMPLATE |-> "http.response.header"]
url_attributes ==
    [URL_PATH |-> <<"url.path">>,
     URL_SCHEME |-> <<"url.scheme">>,
     URL_QUERY |-> <<"url.query">>,
     URL_FULL |-> <<"url.full">>]
server_attributes ==
    [SERVER_ADDRESS |-> <<"server.address">>,
     SERVER_PORT |-> <<"server.port">>]
client_attributes ==
    [CLIENT_ADDRESS |-> <<"client.address">>]
network_attributes ==
    [NETWORK_PEER_ADDRESS |-> <<"network.peer.address">>,
     NETWORK_PROTOCOL_VERSION |-> <<"network.protocol.version">>,
     NETWORK_PEER_PORT |-> <<"network.peer.port">>]
user_agent_attributes ==
    [USER_AGENT_ORIGINAL |-> <<"user_agent.original">>]

HTTP_REQUEST_BODY_SIZE == <<"http.request.body.size">>
HTTP_REQUEST_SIZE == <<"http.request.size">>
HTTP_REQUEST_BODY_VALUE == <<"http.request.body.value">>
HTTP_RESPONSE_BODY_SIZE == <<"http.response.body.size">>
HTTP_RESPONSE_SIZE == <<"http.response.size">>
HTTP_RESPONSE_BODY_VALUE == <<"http.response.body.value">>

HeaderKey(template, name) == <<template, ".">> \o Lower(name)

DURATION_ATTRS ==
    <<http_attributes.HTTP_REQUEST_METHOD, url_attributes.URL_SCHEME, http_attributes.HTTP_ROUTE, server_attributes.SERVER_ADDRESS, server_attributes.SERVER_PORT,
      http_attributes.HTTP_RESPONSE_STATUS_CODE>>

ACTIVE_REQUEST_COUNTER_ATTRS ==
    <<http_attributes.HTTP_REQUEST_METHOD, url_attributes.URL_SCHEME, server_attributes.SERVER_ADDRESS, server_attributes.SERVER_PORT>>

EmptyAttrs == [k \in {} |-> PyNone]

\* attributes[k] = v
SetAttr(attrs, k, v) ==
    [x \in DOMAIN attrs \cup {k} |-> IF x = k THEN v ELSE attrs[x]]

\* _filter_attrs with one entry per name of the list, None for a missing one.
FilterAttrsNullForAbsent(attrs, names) ==
    [k \in Range(names) |-> IF k \in DOMAIN attrs THEN attrs[k] ELSE PyNone]

\* _filter_attrs: the entries of attrs whose key is one of names.
FilterAttrs(attrs, names) ==
    [k \in {x \in DOMAIN attrs : x \in Range(names)} |-> attrs[k]]

(***************************************************************************)
(* A processor call works on a record [attrs, exc, adds, recs]: the        *)
(* AttributeSet as written so far (the dict is updated in place, so what   *)
(* was written before a failure stays), the exception raised ("none" when  *)
(* none), the counter add calls and the histogram record calls made, and   *)
(* the number of processor calls made.                                     *)
(***************************************************************************)
NoExc == "none"
Work(attrs) ==
    [attrs |-> attrs, exc |-> NoExc, adds |-> <<>>, recs |-> <<>>, calls |-> 0]

\* One more processor has been called.
Called(w) == [w EXCEPT !.calls = @ + 1]

Put(w, k, v) == IF w.exc # NoExc THEN w ELSE [w EXCEPT !.attrs = SetAttr(@, k, v)]
Raise(w, e) == IF w.exc # NoExc THEN w ELSE [w EXCEPT !.exc = e]
PutIf(w, cond, k, v) == IF cond THEN Put(w, k, v) ELSE w

\* a or b
PyOr(a, b) == IF Truthy(a) THEN a ELSE b

\* str(v) of the event method: a str is itself, None gives "None".
StrOf(v) == IF v.t = "str" THEN v ELSE PyStr(<<"N","o","n","e">>)

(***************************************************************************)
(* Headers: [isNone, items], items the (name, value) pairs in dict order.  *)
(***************************************************************************)
NoHeaders == [isNone |-> TRUE, items |-> <<>>]
Headers(items) == [isNone |-> FALSE, items |-> items]
HeadersTruthy(h) == ~h.isNone /\ Len(h.items) > 0

\* headers.get(name)
HeaderGet(h, name) ==
    IF \E k \in 1..Len(h.items) : h.items[k].k = name
    THEN h.items[CHOOSE k \in 1..Len(h.items) : h.items[k].k = name].v
    ELSE PyNone

\* for header_key, header_value in headers.items(): attributes[...] = value
RECURSIVE PutHeaders(_, _, _)
PutHeaders(w, template, items) ==
    IF Len(items) = 0 THEN w
    ELSE PutHeaders(Put(w, HeaderKey(template, items[1].k), items[1].v),
                    template, Tail(items))

(***************************************************************************)
(* HTTPProfileProcessor.process_request(event, ctx, attributes).           *)
(* contentEnv is what is_content_tracing_enabled() returns at the call.    *)
(***************************************************************************)
\* if event.url: the parts of urlparse(event.url); parsed_url.port raises
\* ValueError after path, scheme and address have been written.
UrlPortAttrs(w, pu) ==
    IF UrlPortRaises(pu) THEN Raise(w, "ValueError")
    ELSE PutIf(w, Truthy(UrlPort(pu)), server_attributes.SERVER_PORT, UrlPort(pu))
ParsedUrlAttrs(w, url, pu) ==
    Put(PutIf(UrlPortAttrs(
                  Put(Put(Put(w, url_attributes.URL_PATH, PyStr(pu.path)),
                          url_attributes.URL_SCHEME, PyStr(pu.scheme)),
                      server_attributes.SERVER_ADDRESS, UrlHostname(pu)),
                  pu),
              Len(pu.query) > 0, url_attributes.URL_QUERY, PyStr(pu.query)),
        url_attributes.URL_FULL, url)

\* NoUrlAttrs with the address written as well, as on the branch with a URL.
NoUrlAttrsWithAddress(w, event) ==
    Put(Put(Put(Put(w, url_attributes.URL_PATH, PyOr(event.path, PyStr(<<>>))),
                url_attributes.URL_SCHEME, PyStr(<<"h","t","t","p">>)),
            server_attributes.SERVER_ADDRESS, PyStr(<<>>)),
        url_attributes.URL_FULL, PyStr(<<>>))

\* else: the path of the event, scheme "http", an empty full URL.
NoUrlAttrs(w, event) ==
    Put(Put(Put(w, url_attributes.URL_PATH, PyOr(event.path, PyStr(<<>>))),
            url_attributes.URL_SCHEME, PyStr(<<"h","t","t","p">>)),
        url_attributes.URL_FULL, PyStr(<<>>))
RequestUrlAttrs(w, event) ==
    IF Truthy(event.url)
    THEN ParsedUrlAttrs(w, event.url, urlparse(event.url.s))
    ELSE NoUrlAttrs(w, event)

\* len(v) written under key; TypeError when v has no len().
LenAttr(w, key, v) ==
    IF HasLen(v) THEN Put(w, key, PyInt(PyLen(v))) ELSE Raise(w, "TypeError")

\* if event.body: the value when content tracing is enabled, and the size.
RequestBodyAttrs(w, event, contentEnv) ==
    IF ~Truthy(event.body) THEN w
    ELSE LenAttr(PutIf(w, contentEnv, HTTP_REQUEST_BODY_VALUE, event.body),
                 HTTP_REQUEST_BODY_SIZE, event.body)

\* The header names process_request looks up.
HeaderName ==
    [UserAgent |-> <<"U","s","e","r","-","A","g","e","n","t">>,
     user_agent |-> <<"u","s","e","r","-","a","g","e","n","t">>,
     XForwardedFor |-> <<"X","-","F","o","r","w","a","r","d","e","d","-","F","o","r">>,
     XRealIP |-> <<"X","-","R","e","a","l","-","I","P">>,
     XForwardedProto |->
         <<"X","-","F","o","r","w","a","r","d","e","d","-","P","r","o","t","o">>,
     XForwardedPort |->
         <<"X","-","F","o","r","w","a","r","d","e","d","-","P","o","r","t">>]

\* client_addr.split(',')[0].strip(): a value that is not a str has no such
\* split and raises.
ClientAddrAttrs(w, client_addr) ==
    IF ~Truthy(client_addr) THEN w
    ELSE IF client_addr.t # "str" THEN Raise(w, "AttributeError")
    ELSE Put(Put(w, client_attributes.CLIENT_ADDRESS,
                 PyStr(Strip(Split(client_addr.s, ",")[1]))),
             network_attributes.NETWORK_PEER_ADDRESS,
             PyStr(Strip(Split(client_addr.s, ",")[1])))

\* PeerPortAttrs without the except clause: the ValueError of int() gets out.
PeerPortAttrsUncaught(w, port) ==
    IF ~Truthy(port) THEN w
    ELSE IF port.t = "int" THEN Put(w, network_attributes.NETWORK_PEER_PORT, port)
    ELSE IF port.t # "str" THEN Raise(w, "TypeError")
    ELSE IF IntParses(port.s)
    THEN Put(w, network_attributes.NETWORK_PEER_PORT, PyInt(IntOf(port.s)))
    ELSE Raise(w, "ValueError")

\* int(port) under try/except ValueError: an unparseable str is skipped, an
\* int is itself.
PeerPortAttrs(w, port) ==
    IF ~Truthy(port) THEN w
    ELSE IF port.t = "int" THEN Put(w, network_attributes.NETWORK_PEER_PORT, port)
    ELSE IF port.t # "str" THEN Raise(w, "TypeError")
    ELSE PutIf(w, IntParses(port.s), network_attributes.NETWORK_PEER_PORT, PyInt(IntOf(port.s)))

\* attributes[key] = v when v is truthy.
PutTruthy(w, key, v) == PutIf(w, Truthy(v), key, v)

\* if event.headers: user agent, client address, protocol version, peer port.
RequestDerivedAttrs(w, event) ==
    IF ~HeadersTruthy(event.headers) THEN w
    ELSE PeerPortAttrs(
             PutTruthy(
                 ClientAddrAttrs(
                     PutTruthy(w, user_agent_attributes.USER_AGENT_ORIGINAL,
                               PyOr(HeaderGet(event.headers, HeaderName.UserAgent),
                                    HeaderGet(event.headers, HeaderName.user_agent))),
                     PyOr(HeaderGet(event.headers, HeaderName.XForwardedFor),
                          HeaderGet(event.headers, HeaderName.XRealIP))),
                 network_attributes.NETWORK_PROTOCOL_VERSION,
                 HeaderGet(event.headers, HeaderName.XForwardedProto)),
             HeaderGet(event.headers, HeaderName.XForwardedPort))

\* counter.add(delta, _filter_attrs(attributes, ACTIVE_REQUEST_COUNTER_ATTRS))
\* when the handle read from the context is truthy.
CounterAdd(w, ctx, delta) ==
    IF w.exc # NoExc THEN w
    ELSE IF ctx.meter_active_requests_counter.st = "unset"
    THEN Raise(w, "AttributeError")
    ELSE IF ~FieldTruthy(ctx.meter_active_requests_counter) THEN w
    ELSE [w EXCEPT !.adds = Append(@,
              [delta |-> delta,
               tags |-> FilterAttrs(w.attrs, ACTIVE_REQUEST_COUNTER_ATTRS)])]

\* if headers: one attribute per header.
HeaderAttrs(w, template, headers) ==
    IF HeadersTruthy(headers) THEN PutHeaders(w, template, headers.items) ELSE w

\* attributes[key] = size when size is not None.
SizeAttr(w, key, size) == PutIf(w, size.t # "None", key, size)

http_process_request(w, event, ctx, contentEnv) ==
    CounterAdd(
        RequestDerivedAttrs(
            RequestBodyAttrs(
                SizeAttr(
                    HeaderAttrs(
                        Put(RequestUrlAttrs(
                                Put(w, http_attributes.HTTP_REQUEST_METHOD, StrOf(event.method)),
                                event),
                            http_attributes.HTTP_ROUTE, PyOr(event.path, PyStr(<<>>))),
                        http_attributes.HTTP_REQUEST_HEADER_TEMPLATE, event.headers),
                    HTTP_REQUEST_SIZE, event.size),
                event, contentEnv),
            event),
        ctx, 1)

(***************************************************************************)
(* HTTPProfileProcessor.process_response(response, start_time, end_time,   *)
(* ctx, attributes).  A response is [kind, status_code, headers, size,     *)
(* body, raw]: kind "Response" for a nuclio Response, "raw" for any other  *)
(* value, which is then held in raw.                                       *)
(***************************************************************************)
Response(status_code, headers, size, body) ==
    [kind |-> "Response", status_code |-> status_code, headers |-> headers,
     size |-> size, body |-> body, raw |-> PyNone]
RawValue(v) ==
    [kind |-> "raw", status_code |-> 0, headers |-> NoHeaders,
     size |-> PyNone, body |-> PyNone, raw |-> v]

\* ctx.content_tracing_enabled: AttributeError when the context has no such field.
ContentFlagGuard(w, ctx) ==
    IF ctx.content_tracing_enabled.st = "unset" THEN Raise(w, "AttributeError") ELSE w
ContentFlag(ctx) ==
    ctx.content_tracing_enabled.st = "set" /\ ctx.content_tracing_enabled.val

\* if response.body: the value when the context enables content tracing, and
\* the size.
BodyAttrs(w, body, ctx) ==
    LenAttr(PutIf(ContentFlagGuard(w, ctx), ContentFlag(ctx),
                  HTTP_RESPONSE_BODY_VALUE, body),
            HTTP_RESPONSE_BODY_SIZE, body)
ResponseBodyAttrs(w, response, ctx) ==
    IF ~Truthy(response.body) THEN w ELSE BodyAttrs(w, response.body, ctx)

\* if isinstance(response, Response): ...
StructuredResponseAttrs(w, response, ctx) ==
    ResponseBodyAttrs(
        SizeAttr(
            HeaderAttrs(
                Put(w, http_attributes.HTTP_RESPONSE_STATUS_CODE, PyInt(response.status_code)),
                http_attributes.HTTP_RESPONSE_HEADER_TEMPLATE, response.headers),
            HTTP_RESPONSE_SIZE, response.size),
        response, ctx)

\* RawResponseAttrs with http.response.size written as well.
RawResponseAttrsWithSize(w, response, ctx) ==
    BodyAttrs(Put(Put(w, http_attributes.HTTP_RESPONSE_STATUS_CODE, PyInt(200)),
                  HTTP_RESPONSE_SIZE, PyInt(0)),
              response.raw, ctx)

\* else: status 200, the raw value when content tracing is enabled, its len().
RawResponseAttrs(w, response, ctx) ==
    BodyAttrs(Put(w, http_attributes.HTTP_RESPONSE_STATUS_CODE, PyInt(200)), response.raw, ctx)

\* histogram.record(value, _filter_attrs(attributes, DURATION_ATTRS)) when the
\* handle is truthy.
HistogramRecord(w, field, name, value) ==
    IF w.exc # NoExc \/ ~FieldTruthy(field) THEN w
    ELSE [w EXCEPT !.recs = Append(@,
              [inst |-> name, value |-> value,
               tags |-> FilterAttrs(w.attrs, DURATION_ATTRS)])]

\* The three getattr(ctx, "meter_..._histogram") reads, made before any record.
HistogramReads(w, ctx) ==
    IF \/ ctx.meter_duration_histogram.st = "unset"
       \/ ctx.meter_request_body_size_histogram.st = "unset"
       \/ ctx.meter_response_body_size_histogram.st = "unset"
    THEN Raise(w, "AttributeError")
    ELSE w

\* SizeRecord without the test `key in attributes`: 0 is recorded for a
\* missing attribute.
SizeRecordUnguarded(w, field, name, key) ==
    HistogramRecord(w, field, name,
                    IF key \in DOMAIN w.attrs THEN w.attrs[key].i ELSE 0)

\* histogram.record(attributes[key], ...) when key is among the attributes.
SizeRecord(w, field, name, key) ==
    IF key \in DOMAIN w.attrs
    THEN HistogramRecord(w, field, name, w.attrs[key].i)
    ELSE w

http_process_response(w, response, start_time, end_time, ctx) ==
    SizeRecord(
        SizeRecord(
            HistogramRecord(
                HistogramReads(
                    CounterAdd(IF response.kind = "Response"
                               THEN StructuredResponseAttrs(w, response, ctx)
                               ELSE RawResponseAttrs(w, response, ctx),
                               ctx, -1),
                    ctx),
                ctx.meter_duration_histogram, "duration", end_time - start_time),
            ctx.meter_request_body_size_histogram, "request_size",
            HTTP_REQUEST_BODY_SIZE),
        ctx.meter_response_body_size_histogram, "response_size",
        HTTP_RESPONSE_BODY_SIZE)

(***************************************************************************)
(* _process_request / _process_response: every processor of                *)
(* getattr(ctx, "profile_processors", []) in list order; a failure of one  *)
(* processor ends the loop.  Every processor of the list is an             *)
(* HTTPProfileProcessor.                                                   *)
(***************************************************************************)
Processors(ctx) ==
    IF ctx.profile_processors.st = "set" THEN ctx.profile_processors.val ELSE <<>>

RECURSIVE RequestLoop(_, _, _, _, _)
RequestLoop(w, n, event, ctx, contentEnv) ==
    IF n = 0 \/ w.exc # NoExc THEN w
    ELSE RequestLoop(Called(http_process_request(w, event, ctx, contentEnv)), n - 1,
                     event, ctx, contentEnv)
module_process_request(w, event, ctx, contentEnv) ==
    RequestLoop(w, Len(Processors(ctx)), event, ctx, contentEnv)

RECURSIVE ResponseLoop(_, _, _, _, _, _)
ResponseLoop(w, n, response, start_time, end_time, ctx) ==
    IF n = 0 \/ w.exc # NoExc THEN w
    ELSE ResponseLoop(Called(http_process_response(w, response, start_time,
                                                       end_time, ctx)),
                      n - 1, response, start_time, end_time, ctx)
module_process_response(w, response, start_time, end_time, ctx) ==
    ResponseLoop(w, Len(Processors(ctx)), response, start_time, end_time, ctx)

(***************************************************************************)
(* Environment variables: [set, s], s the characters of the value.         *)
(***************************************************************************)
EnvUnset == [set |-> FALSE, s |-> <<>>]
EnvValue(s) == [set |-> TRUE, s |-> s]

\* os.getenv(name, default)
GetEnv(var, default) == IF var.set THEN var.s ELSE default

\* HTTPProfileProcessor.is_content_tracing_enabled
is_content_tracing_enabled(e) ==
    Lower(GetEnv(e.OTEL_TRACING_CONTENT, <<"f","a","l","s","e">>)) = <<"t","r","u","e">>

\* get_profiles without its fallback: the value is split even when it is empty.
get_profilesNoFallback(e) ==
    Split(GetEnv(e.OTEL_ENABLED_PROFILES, <<"h","t","t","p">>), ",")

\* get_profiles
get_profiles(e) ==
    IF Len(GetEnv(e.OTEL_ENABLED_PROFILES, <<"h","t","t","p">>)) > 0
    THEN Split(GetEnv(e.OTEL_ENABLED_PROFILES, <<"h","t","t","p">>), ",")
    ELSE << <<"h","t","t","p">> >>

(***************************************************************************)
(* The inputs the model draws: environments, events, handlers.             *)
(***************************************************************************)
Envs ==
    { [OTEL_TRACING_CONTENT |-> EnvUnset, OTEL_ENABLED_PROFILES |-> EnvUnset],
      [OTEL_TRACING_CONTENT |-> EnvValue(<<"T","r","u","e">>),
       OTEL_ENABLED_PROFILES |-> EnvValue(<<"c","u","s","t","o","m",",","h","t","t","p">>)] }

EventGetFull ==
    [method |-> PyStr(<<"G","E","T">>),
     url |-> PyStr(<<"h","t","t","p",":","/","/","H",":","8","0","/","p","?","q">>),
     path |-> PyStr(<<"/","p">>),
     headers |-> Headers(<<
         [k |-> HeaderName.UserAgent, v |-> PyStr(<<"a">>)],
         [k |-> HeaderName.XForwardedFor, v |-> PyStr(<<"1",","," ","2">>)],
         [k |-> HeaderName.XForwardedPort, v |-> PyStr(<<"x">>)] >>),
     size |-> PyInt(4),
     body |-> PyBytes(<<"b","o","d","y">>)]

EventPostNoUrl ==
    [method |-> PyStr(<<"P","O","S","T">>),
     url |-> PyNone,
     path |-> PyStr(<<"/","t">>),
     headers |-> NoHeaders,
     size |-> PyNone,
     body |-> PyNone]

EventBadPort ==
    [method |-> PyStr(<<"G","E","T">>),
     url |-> PyStr(<<"h","t","t","p",":","/","/","h",":","x","/">>),
     path |-> PyNone,
     headers |-> NoHeaders,
     size |-> PyNone,
     body |-> PyNone]


\* kwargs of execute_callable: whether "event" is among them, and the event.
NoEventKwargs == [hasEvent |-> FALSE, event |-> EventPostNoUrl]
KwargsSet == {[hasEvent |-> TRUE, event |-> e] : e \in {EventGetFull, EventPostNoUrl, EventBadPort}} \cup {NoEventKwargs}

\* The inputs drawn where initialization and invocations interleave freely.
RaceKwargsSet == {[hasEvent |-> TRUE, event |-> EventGetFull]}

\* A handler: what function(**kwargs) does when called, and how long it takes.
HandlerReturns(v, dur) == [raises |-> FALSE, val |-> v, exc |-> NoExc, dur |-> dur]
HandlerRaises(e, dur) == [raises |-> TRUE, val |-> RawValue(PyNone), exc |-> e, dur |-> dur]

Handlers ==
    { HandlerReturns(Response(200,
                 Headers(<<[k |-> <<"C","o","n","t","e","n","t","-","T","y","p","e">>,
                            v |-> PyStr(<<"j","s","o","n">>)]>>),
                 PyInt(2), PyBytes(<<"o","k">>)), 2),
      HandlerReturns(RawValue(PyStr(<<"d","o","n","e">>)), 1),
      HandlerReturns(RawValue(PyNone), 0),
      HandlerRaises("HandlerError", 1) }

RaceHandlers ==
    { HandlerReturns(RawValue(PyStr(<<"d","o","n","e">>)), 1),
      HandlerRaises("HandlerError", 1) }

(***************************************************************************)
(* State.                                                                  *)
(***************************************************************************)
VARIABLES
    env,      \* the process environment
    ctx,      \* the Execution Context shared by every call
    init,     \* the position and locals of the initialize_opentelemetry call
    inits,    \* number of initialize_opentelemetry calls started
    infoLog,  \* number of logger.info("OpenTelemetry initialized.") lines
    active,   \* net value of the http.server.active_requests counter
    inv       \* the execute_callable calls, one per slot

vars == <<env, ctx, init, inits, infoLog, active, inv>>

Invs == 1..MaxInv

\* ",".join(names)
RECURSIVE Join(_)
Join(names) ==
    IF Len(names) = 0 THEN <<>>
    ELSE IF Len(names) = 1 THEN names[1]
    ELSE names[1] \o <<",">> \o Join(Tail(names))

\* The profile names an OTEL_ENABLED_PROFILES value is made of, and the lists
\* of at most MaxProfiles of them.
ProfileNames == {<<"h","t","t","p">>, <<"x">>, <<>>, <<"H","T","T","P">>}
ProfileLists == UNION {[1..n -> ProfileNames] : n \in 0..MaxProfiles}

\* The environments drawn where only initialize_opentelemetry runs.
InitEnvs ==
    {[OTEL_TRACING_CONTENT |-> c, OTEL_ENABLED_PROFILES |-> p] :
        c \in {EnvUnset, EnvValue(<<"t","r","u","e">>)},
        p \in {EnvUnset} \cup {EnvValue(Join(names)) : names \in ProfileLists}}

\* ctx.run: the attribute is missing, holds None, or holds a run with an id.
Runs == {UnsetField(""), [st |-> "None", gen |-> 0, val |-> ""], SetField(0, "run-1")}

\* The context before any initialization: the optional handles the code reads
\* with getattr(ctx, name) and tests with `is None` / `if handle:` exist and
\* hold None; content_tracing_enabled and profile_processors do not exist yet.
FreshContext ==
    [tracer |-> NoneField,
     meter |-> NoneField,
     content_tracing_enabled |-> UnsetField(FALSE),
     meter_duration_histogram |-> NoneField,
     meter_active_requests_counter |-> NoneField,
     meter_request_body_size_histogram |-> NoneField,
     meter_response_body_size_histogram |-> NoneField,
     profile_processors |-> UnsetField(<<>>),
     run |-> UnsetField("")]

IdleInit ==
    [pc |-> "idle", profiles |-> <<>>, idx |-> 0, procs |-> <<>>, written |-> {},
     tracer_name |-> "", meter_name |-> "",   \* the names given to get_tracer / get_meter
     tracer |-> NoneField, meter |-> NoneField, \* what get_tracer / get_meter returned
     trace |-> <<>>]                           \* the calls made so far, in order

NoOutcome == [kind |-> "none", val |-> RawValue(PyNone), exc |-> NoExc]
Returned(v) == [kind |-> "return", val |-> v, exc |-> NoExc]
Raised(e) == [kind |-> "raise", val |-> RawValue(PyNone), exc |-> e]

IdleInv ==
    [pc |-> "idle",
     kwargs |-> NoEventKwargs,
     function |-> HandlerReturns(RawValue(PyNone), 0),
     tracer |-> UnsetField(0),          \* what getattr(ctx, "tracer") returned
     meter |-> UnsetField(0),           \* what getattr(ctx, "meter") returned
     attributes |-> EmptyAttrs,
     res |-> RawValue(PyNone),          \* res of _execute_measured
     pending |-> Returned(RawValue(PyNone)), \* the return or raise in flight
     outcome |-> NoOutcome,             \* what the caller received
     start_time |-> 0,
     end_time |-> 0,
     timeCalls |-> 0,                   \* calls of time.time()
     clockReads |-> <<>>,               \* handlerCalls at each call of time.time()
     requestCalls |-> 0,                \* calls of a processor's process_request
     responseCalls |-> 0,               \* calls of a processor's process_response
     handlerCalls |-> 0,
     spanStarts |-> 0,
     spanName |-> "",                   \* the name given to start_as_current_span
     spanEnds |-> 0,
     setStatus |-> 0,
     recordException |-> <<>>,
     commits |-> <<>>,
     adds |-> <<>>,
     recs |-> <<>>,
     trace |-> <<>>,
     telemetryExc |-> NoExc]            \* the failure a processor raised, if any

Init ==
    /\ env \in Envs
    /\ ctx = FreshContext
    /\ init = IdleInit
    /\ inits = 0
    /\ infoLog = 0
    /\ active = 0
    /\ inv = [i \in Invs |-> IdleInv]

(***************************************************************************)
(* initialize_opentelemetry(ctx).  Every setattr is a write to the shared  *)
(* context that a concurrent execute_callable can see, so the function is  *)
(* a sequence of steps.  trace.get_tracer / metrics.get_meter return a     *)
(* handle or None (the code tests both results against None).              *)
(***************************************************************************)
\* The initialization in progress has written some field of the context and
\* has not yet stored the processors list, its last write.
HalfInitialized == init.pc \notin {"idle", "log"} /\ init.written # {}

\* tracer_name without the run: the fixed name whatever the context.
tracer_nameFixed(c) == "serverless-function"

\* run = getattr(ctx, "run", None);
\* tracer_name = run.id if run else "serverless-function"
tracer_name(c) == IF c.run.st = "set" THEN c.run.val ELSE "serverless-function"

\* OpenTelemetryConfigurator().configure(); tracer = trace.get_tracer(name);
\* if tracer is not None and is_tracing_enabled(): setattr(ctx, "tracer", tracer)
InitTracer(tracer) ==
    /\ init.pc = "idle"
    /\ inits < MaxInits
    /\ inits' = inits + 1
    /\ ctx' = IF tracer # NoneField THEN [ctx EXCEPT !.tracer = tracer] ELSE ctx
    /\ init' = [IdleInit EXCEPT !.pc = "meter",
                                !.written = IF tracer # NoneField THEN {"tracer"} ELSE {},
                                !.tracer_name = tracer_name(ctx),
                                !.tracer = tracer,
                                !.trace = <<"get_tracer">>]
    /\ UNCHANGED <<env, infoLog, active, inv>>

\* meter = metrics.get_meter(name);
\* if meter is not None and is_metrics_enabled(): setattr(ctx, "meter", meter)
InitMeter(meter) ==
    /\ init.pc = "meter"
    /\ ctx' = IF meter # NoneField THEN [ctx EXCEPT !.meter = meter] ELSE ctx
    /\ init' = [init EXCEPT !.pc = "profiles",
                            !.written = IF meter # NoneField THEN @ \cup {"meter"} ELSE @,
                            !.meter_name = init.tracer_name,
                            !.meter = meter,
                            !.trace = Append(@, "get_meter")]
    /\ UNCHANGED <<env, inits, infoLog, active, inv>>

\* profiles = get_profiles(); profile_processors = []
InitProfiles ==
    /\ init.pc = "profiles"
    /\ init' = [init EXCEPT !.pc = "loop", !.profiles = get_profiles(env),
                            !.idx = 1, !.procs = <<>>]
    /\ UNCHANGED <<env, ctx, inits, infoLog, active, inv>>

\* HTTPProfileProcessor.init_profile(ctx): the content-tracing flag, then,
\* when the context holds a meter, the four instruments.
InitProfileFields(c) ==
    IF c.meter.st = "None" THEN {"content_tracing_enabled"}
    ELSE {"content_tracing_enabled", "meter_duration_histogram",
          "meter_active_requests_counter", "meter_request_body_size_histogram",
          "meter_response_body_size_histogram"}
init_profile(c, e, g) ==
    LET flagged == [c EXCEPT !.content_tracing_enabled =
                                 SetField(g, is_content_tracing_enabled(e))]
    IN  IF c.meter.st = "None" THEN flagged
        ELSE [flagged EXCEPT !.meter_duration_histogram = Handle(g),
                             !.meter_active_requests_counter = Handle(g),
                             !.meter_request_body_size_histogram = Handle(g),
                             !.meter_response_body_size_histogram = Handle(g)]

\* InitLoop with a processor constructed for every profile name, known or not.
InitLoopEveryName ==
    /\ init.pc = "loop"
    /\ init.idx <= Len(init.profiles)
    /\ ctx' = init_profile(ctx, env, inits)
    /\ init' = [init EXCEPT !.idx = @ + 1,
                            !.procs = Append(@, "http"),
                            !.trace = Append(@, "init_profile"),
                            !.written = @ \cup InitProfileFields(ctx)]
    /\ UNCHANGED <<env, inits, infoLog, active, inv>>

\* for profile in profiles: if profile == "http": construct the processor,
\* init_profile(ctx), append it.
InitLoop ==
    /\ init.pc = "loop"
    /\ init.idx <= Len(init.profiles)
    /\ IF init.profiles[init.idx] = <<"h","t","t","p">>
       THEN /\ ctx' = init_profile(ctx, env, inits)
            /\ init' = [init EXCEPT !.idx = @ + 1,
                                    !.procs = Append(@, "http"),
                                    !.trace = Append(@, "init_profile"),
                                    !.written = @ \cup InitProfileFields(ctx)]
       ELSE /\ ctx' = ctx
            /\ init' = [init EXCEPT !.idx = @ + 1]
    /\ UNCHANGED <<env, inits, infoLog, active, inv>>

\* InitStore with the log line emitted before the list is stored, in addition
\* to the one at the end.
InitStoreLogsEarly ==
    /\ init.pc = "loop"
    /\ init.idx > Len(init.profiles)
    /\ infoLog' = infoLog + 1
    /\ ctx' = [ctx EXCEPT !.profile_processors = SetField(inits, init.procs)]
    /\ init' = [init EXCEPT !.pc = "log", !.trace = <<"log">> \o @ \o <<"store">>]
    /\ UNCHANGED <<env, inits, active, inv>>

\* setattr(ctx, "profile_processors", profile_processors)
InitStore ==
    /\ init.pc = "loop"
    /\ init.idx > Len(init.profiles)
    /\ ctx' = [ctx EXCEPT !.profile_processors = SetField(inits, init.procs)]
    /\ init' = [init EXCEPT !.pc = "log", !.trace = Append(@, "store")]
    /\ UNCHANGED <<env, inits, infoLog, active, inv>>

\* ctx.logger.info("OpenTelemetry initialized."); the function returns.
InitLog ==
    /\ init.pc = "log"
    /\ infoLog' = infoLog + 1
    /\ init' = IdleInit
    /\ UNCHANGED <<env, ctx, inits, active, inv>>

\* os.environ changes between two calls of the program.
SetEnv(e) ==
    /\ init.pc = "idle"
    /\ e # env
    /\ env' = e
    /\ UNCHANGED <<ctx, init, inits, infoLog, active, inv>>

(***************************************************************************)
(* execute_callable(function, **kwargs), one call per slot of inv.         *)
(* The pc of a call: "idle" (not called yet), "request" (span started),    *)
(* "measured" (about to enter _execute_measured), "response" (handler      *)
(* called on the metered path), "except", "finally", "close" (the clauses  *)
(* of the traced path), "done" (the caller has the outcome).               *)
(***************************************************************************)
RECURSIVE SumDeltas(_)
SumDeltas(adds) ==
    IF Len(adds) = 0 THEN 0 ELSE adds[1].delta + SumDeltas(Tail(adds))

\* ctx = kwargs.get("context"); tracer = getattr(ctx, "tracer"); attributes = {};
\* without a tracer go to _execute_measured, with one start the span "handler".
StartCall(r) ==
    IF r.tracer.st = "None"
    THEN [r EXCEPT !.pc = "measured"]
    ELSE [r EXCEPT !.pc = "request", !.spanStarts = 1, !.spanName = "handler",
                   !.trace = <<"span_start">>]

\* Call with one AttributeSet shared by the invocations instead of a fresh
\* one per call: a call starts from what the call before it has written.
CallSharedAttributes(i, kw, fn) ==
    /\ inv[i].pc = "idle"
    /\ \A j \in 1..(i - 1) : inv[j].pc # "idle"
    /\ inv' = [inv EXCEPT ![i] =
                   StartCall([IdleInv EXCEPT !.kwargs = kw, !.function = fn,
                                             !.tracer = ctx.tracer,
                                             !.attributes =
                                                 IF i > 1 THEN inv[i - 1].attributes
                                                 ELSE EmptyAttrs])]
    /\ UNCHANGED <<env, ctx, init, inits, infoLog, active>>

\* One call of execute_callable(function, **kwargs): attributes = {}.
Call(i, kw, fn) ==
    /\ inv[i].pc = "idle"
    /\ \A j \in 1..(i - 1) : inv[j].pc # "idle"
    /\ inv' = [inv EXCEPT ![i] =
                   StartCall([IdleInv EXCEPT !.kwargs = kw, !.function = fn,
                                             !.tracer = ctx.tracer])]
    /\ UNCHANGED <<env, ctx, init, inits, infoLog, active>>

\* AfterRequest with the attributes committed to the span as soon as the
\* request side has run, before the handler and the response side.
AfterRequestCommitsEarly(r, w) ==
    [r EXCEPT !.attributes = w.attrs,
              !.requestCalls = @ + w.calls,
              !.adds = @ \o w.adds,
              !.telemetryExc = w.exc,
              !.commits = Append(@, w.attrs),
              !.trace = @ \o <<"request", "commit">>]

\* The call after _process_request has run: the AttributeSet as the processors
\* left it and the counter calls they made.
AfterRequest(r, w) ==
    [r EXCEPT !.attributes = w.attrs,
              !.requestCalls = @ + w.calls,
              !.adds = @ \o w.adds,
              !.telemetryExc = w.exc,
              !.trace = Append(@, "request")]

\* Where the call goes after _process_request: to the except clause when a
\* processor raised, else on to _execute_measured.
RequestRoute(a) ==
    IF a.telemetryExc # NoExc
    THEN [a EXCEPT !.pc = "except", !.pending = Raised(a.telemetryExc)]
    ELSE [a EXCEPT !.pc = "measured"]

\* The effect of _process_request, w being what the processors did.
RequestEffect(i, w) ==
    /\ inv' = [inv EXCEPT ![i] = RequestRoute(AfterRequest(inv[i], w))]
    /\ active' = active + SumDeltas(w.adds)

\* Request with the content-tracing flag of the context refreshed from the
\* environment at every request.
RequestRefreshesFlag(i) ==
    /\ inv[i].pc = "request"
    /\ IF ~inv[i].kwargs.hasEvent
       THEN /\ inv' = [inv EXCEPT ![i].pc = "measured"]
            /\ active' = active
       ELSE RequestEffect(i, module_process_request(
                                 Work(inv[i].attributes), inv[i].kwargs.event, ctx,
                                 is_content_tracing_enabled(env)))
    /\ ctx' = [ctx EXCEPT !.content_tracing_enabled =
                              SetField(inits, is_content_tracing_enabled(env))]
    /\ UNCHANGED <<env, init, inits, infoLog>>

\* if "event" in kwargs: _process_request(kwargs["event"], ctx, attributes)
Request(i) ==
    /\ inv[i].pc = "request"
    /\ IF ~inv[i].kwargs.hasEvent
       THEN /\ inv' = [inv EXCEPT ![i].pc = "measured"]
            /\ active' = active
       ELSE RequestEffect(i, module_process_request(
                                 Work(inv[i].attributes), inv[i].kwargs.event, ctx,
                                 is_content_tracing_enabled(env)))
    /\ UNCHANGED <<env, ctx, init, inits, infoLog>>


\* Where a return or raise of _execute_measured goes: without a span straight
\* to the caller, with one to the except clause (a raise) or to the finally
\* clause (a return).
Leave(r, pending) ==
    IF r.tracer.st = "None"
    THEN [r EXCEPT !.pc = "done", !.pending = pending, !.outcome = pending]
    ELSE [r EXCEPT !.pc = IF pending.kind = "raise" THEN "except" ELSE "finally",
                   !.pending = pending]

\* DirectCall with the return statement lost: the handler's value is dropped.
DirectCallDropsResult(fn) ==
    IF fn.raises THEN Raised(fn.exc) ELSE Returned(RawValue(PyNone))

\* What function(**kwargs) gives on the path without a meter:
\* return function(**kwargs).
DirectCall(fn) == IF fn.raises THEN Raised(fn.exc) ELSE Returned(fn.val)

\* What res holds after try/except on the path with a meter:
\* res = function(**kwargs), or Response(status_code=500) when it raised.
MeasuredRes(fn) ==
    IF fn.raises THEN Response(500, Headers(<<>>), PyNone, PyNone) ELSE fn.val

\* CallFunction with a retry: a handler that raised is called a second time.
CallFunctionRetry(r) ==
    [r EXCEPT !.handlerCalls = IF r.function.raises THEN @ + 2 ELSE @ + 1,
              !.trace = Append(@, "handler")]

\* start_time = time.time(), on the path with a meter, before the handler is
\* called.
StartClock(r) ==
    IF r.meter.st = "None" THEN r
    ELSE [r EXCEPT !.start_time = 0,
                   !.timeCalls = @ + 1,
                   !.clockReads = Append(@, r.handlerCalls)]

\* function(**kwargs): one call of the handler.
CallFunction(r) ==
    [r EXCEPT !.handlerCalls = @ + 1, !.trace = Append(@, "handler")]

\* A variant of MeasuredNext that takes the metered path whatever the meter.
MeasuredNextAlwaysMetered(called) ==
    [called EXCEPT !.pc = "response", !.res = MeasuredRes(called.function)]

\* _execute_measured up to the handler call: meter = getattr(ctx, "meter");
\* without a meter return function(**kwargs); with one take start_time and
\* call the handler inside try/except.
MeasuredNext(called) ==
    IF called.meter.st = "None"
    THEN Leave(called, DirectCall(called.function))
    ELSE [called EXCEPT !.pc = "response", !.res = MeasuredRes(called.function)]
Measured(i) ==
    /\ inv[i].pc = "measured"
    /\ inv' = [inv EXCEPT ![i] =
                   MeasuredNext(CallFunction(StartClock([inv[i] EXCEPT !.meter = ctx.meter])))]
    /\ UNCHANGED <<env, ctx, init, inits, infoLog, active>>

\* What _execute_measured gives after its finally clause on the path with a
\* meter: the failure of _process_response when it raised, else the function
\* ends without a return statement and gives None.
MeasuredExit(w) ==
    IF w.exc # NoExc THEN Raised(w.exc) ELSE Returned(RawValue(PyNone))

\* The call after _process_response has run: the AttributeSet as the
\* processors left it and the instrument calls they made.
AfterResponse(r, w) ==
    [r EXCEPT !.attributes = w.attrs,
              !.end_time = r.start_time + r.function.dur,
              !.timeCalls = @ + 1,
              !.clockReads = Append(@, r.handlerCalls),
              !.responseCalls = @ + w.calls,
              !.adds = @ \o w.adds,
              !.recs = @ \o w.recs,
              !.telemetryExc = w.exc,
              !.trace = Append(@, "response")]

\* The effect of _process_response, w being what the processors did.
ResponseEffect(i, w) ==
    /\ inv' = [inv EXCEPT ![i] = Leave(AfterResponse(inv[i], w), MeasuredExit(w))]
    /\ active' = active + SumDeltas(w.adds)

\* finally: end_time = time.time(); _process_response(res, start_time,
\* end_time, ctx, attributes)
ResponseStep(i) ==
    /\ inv[i].pc = "response"
    /\ ResponseEffect(i, module_process_response(
                             Work(inv[i].attributes), inv[i].res, inv[i].start_time,
                             inv[i].start_time + inv[i].function.dur, ctx))
    /\ UNCHANGED <<env, ctx, init, inits, infoLog>>

\* except Exception as ex: current_span.set_status(ERROR);
\* current_span.record_exception(ex); raise ex
Except(i) ==
    /\ inv[i].pc = "except"
    /\ inv' = [inv EXCEPT ![i].pc = "finally",
                          ![i].setStatus = @ + 1,
                          ![i].recordException = Append(@, inv[i].pending.exc),
                          ![i].trace = @ \o <<"set_status", "record_exception">>]
    /\ UNCHANGED <<env, ctx, init, inits, infoLog, active>>

\* Finally with the commit placed at the end of the try block instead of in a
\* finally clause: a failure skips it.
FinallyOnSuccessOnly(i) ==
    /\ inv[i].pc = "finally"
    /\ inv' = [inv EXCEPT ![i] =
             IF inv[i].pending.kind = "raise"
             THEN [inv[i] EXCEPT !.pc = "close"]
             ELSE [inv[i] EXCEPT !.pc = "close",
                                 !.commits = Append(@, inv[i].attributes),
                                 !.trace = Append(@, "commit")]]
    /\ UNCHANGED <<env, ctx, init, inits, infoLog, active>>

\* finally: span.set_attributes(attributes)
Finally(i) ==
    /\ inv[i].pc = "finally"
    /\ inv' = [inv EXCEPT ![i].pc = "close",
                          ![i].commits = Append(@, inv[i].attributes),
                          ![i].trace = Append(@, "commit")]
    /\ UNCHANGED <<env, ctx, init, inits, infoLog, active>>

\* Close with the span ended on the normal exit only: an exception leaves the
\* span open.
CloseOnReturnOnly(i) ==
    /\ inv[i].pc = "close"
    /\ inv' = [inv EXCEPT ![i].pc = "done",
                          ![i].spanEnds = IF inv[i].pending.kind = "raise" THEN @ ELSE @ + 1,
                          ![i].outcome = inv[i].pending,
                          ![i].trace = Append(@, "span_end")]
    /\ UNCHANGED <<env, ctx, init, inits, infoLog, active>>

\* The with block ends: the span is closed and the return value or the
\* exception reaches the caller.
Close(i) ==
    /\ inv[i].pc = "close"
    /\ inv' = [inv EXCEPT ![i].pc = "done",
                          ![i].spanEnds = @ + 1,
                          ![i].outcome = inv[i].pending,
                          ![i].trace = Append(@, "span_end")]
    /\ UNCHANGED <<env, ctx, init, inits, infoLog, active>>

\* The hosting runtime initializes the context before it serves invocations
\* and re-initializes it only while no invocation is running.
Quiescent == \A i \in Invs : inv[i].pc \in {"idle", "done"}
Published == init.pc = "idle" /\ inits > 0

Next ==
    \/ Quiescent /\ \E t \in {NoneField, Handle(inits + 1)} : InitTracer(t)
    \/ \E m \in {NoneField, Handle(inits)} : InitMeter(m)
    \/ InitProfiles
    \/ InitLoop
    \/ InitStore
    \/ InitLog
    \/ Quiescent /\ \E e \in Envs : SetEnv(e)
    \/ Published /\ \E i \in Invs, kw \in KwargsSet, fn \in Handlers : Call(i, kw, fn)
    \/ \E i \in Invs : Request(i)
    \/ \E i \in Invs : Measured(i)
    \/ \E i \in Invs : ResponseStep(i)
    \/ \E i \in Invs : Except(i)
    \/ \E i \in Invs : Finally(i)
    \/ \E i \in Invs : Close(i)

Spec == Init /\ [][Next]_vars

\* The same program with no discipline of the caller: initialization steps and
\* invocation steps interleave freely.
NextRace ==
    \/ \E t \in {NoneField, Handle(inits + 1)} : InitTracer(t)
    \/ \E m \in {NoneField, Handle(inits)} : InitMeter(m)
    \/ InitProfiles
    \/ InitLoop
    \/ InitStore
    \/ InitLog
    \/ \E i \in Invs, kw \in RaceKwargsSet, fn \in RaceHandlers : Call(i, kw, fn)
    \/ \E i \in Invs : Request(i)
    \/ \E i \in Invs : Measured(i)
    \/ \E i \in Invs : ResponseStep(i)
    \/ \E i \in Invs : Except(i)
    \/ \E i \in Invs : Finally(i)
    \/ \E i \in Invs : Close(i)

SpecRace == Init /\ [][NextRace]_vars

\* initialize_opentelemetry alone, called again and again on one context, over
\* every environment of InitEnvs and every ctx.run of Runs.
InitOnly ==
    /\ env \in InitEnvs
    /\ ctx \in {[FreshContext EXCEPT !.run = r] : r \in Runs}
    /\ init = IdleInit
    /\ inits = 0
    /\ infoLog = 0
    /\ active = 0
    /\ inv = [i \in Invs |-> IdleInv]

NextInit ==
    \/ \E t \in {NoneField, Handle(inits + 1)} : InitTracer(t)
    \/ \E m \in {NoneField, Handle(inits)} : InitMeter(m)
    \/ InitProfiles
    \/ InitLoop
    \/ InitStore
    \/ InitLog
    \/ \E e \in InitEnvs : SetEnv(e)

SpecInit == InitOnly /\ [][NextInit]_vars

\* The RequestViews drawn where one invocation follows one initialization:
\* every shape of URL (none, empty, path only, host with and without port and
\* query, user info, a port that is no number), path, X-Forwarded-Port header
\* and body.
RequestViews ==
    {[method |-> PyStr(<<"G","E","T">>), url |-> u, path |-> p, headers |-> h,
      size |-> b.size, body |-> b.body] :
        u \in {PyNone, PyStr(<<>>),
               PyStr(<<"/","p">>),
               PyStr(<<"h","t","t","p",":","/","/","h","/">>),
               PyStr(<<"h","t","t","p",":","/","/","H",":","8","0","/","p","?","q">>),
               PyStr(<<"h","t","t","p","s",":","/","/","u","@","h",":","/","a","#","f">>),
               PyStr(<<"h","t","t","p",":","/","/","h",":","x","/">>)},
        p \in {PyNone, PyStr(<<"/","t">>)},
        h \in {NoHeaders, Headers(<<>>)}
               \cup {Headers(<<[k |-> HeaderName.XForwardedPort, v |-> PyStr(v)]>>) :
                         v \in {<<"x">>, <<"8","0">>, <<" ","8","_","0">>, <<"8","0","a">>}},
        b \in {[size |-> PyNone, body |-> PyNone],
               [size |-> PyInt(4), body |-> PyBytes(<<"b","o","d","y">>)]}}

\* One initialization, then one invocation on a RequestView of RequestViews.
NextViews ==
    \/ inits = 0 /\ \E t \in {NoneField, Handle(1)} : InitTracer(t)
    \/ \E m \in {NoneField, Handle(inits)} : InitMeter(m)
    \/ InitProfiles
    \/ InitLoop
    \/ InitStore
    \/ InitLog
    \/ Published /\ \E e \in RequestViews, fn \in Handlers :
                        Call(1, [hasEvent |-> TRUE, event |-> e], fn)
    \/ \E i \in Invs : Request(i)
    \/ \E i \in Invs : Measured(i)
    \/ \E i \in Invs : ResponseStep(i)
    \/ \E i \in Invs : Except(i)
    \/ \E i \in Invs : Finally(i)
    \/ \E i \in Invs : Close(i)

\* The environments of that one initialization: those of Envs, and one that
\* names the http profile twice.
InitViews ==
    /\ env \in Envs \cup {[OTEL_TRACING_CONTENT |-> EnvUnset,
                            OTEL_ENABLED_PROFILES |->
                                EnvValue(<<"h","t","t","p",",","h","t","t","p">>)]}
    /\ ctx = FreshContext
    /\ init = IdleInit
    /\ inits = 0
    /\ infoLog = 0
    /\ active = 0
    /\ inv = [i \in Invs |-> IdleInv]

SpecViews == InitViews /\ [][NextViews]_vars

(***************************************************************************)
(* Properties.                                                             *)
(***************************************************************************)
\* What a direct call function(**kwargs) gives its caller.
HandlerOutcome(fn) == IF fn.raises THEN Raised(fn.exc) ELSE Returned(fn.val)

Done(i) == inv[i].pc = "done"

\* C1: when the handler returns normally, execute_callable returns exactly the
\* value the handler returned, with or without tracer, with or without meter.
C1_ResultReturnedUnaltered ==
    \A i \in Invs :
        (Done(i) /\ inv[i].handlerCalls = 1 /\ ~inv[i].function.raises)
            => inv[i].outcome = Returned(inv[i].function.val)

\* C2: on a context with a tracer, a handler that raises makes execute_callable
\* re-raise that same failure after exactly one set_status(error) and exactly
\* one record_exception, whether the meter is present or absent.
C2_HandlerFailureReRaised ==
    \A i \in Invs :
        (Done(i) /\ inv[i].tracer.st = "set" /\ inv[i].handlerCalls = 1
                 /\ inv[i].function.raises)
            => /\ inv[i].outcome = Raised(inv[i].function.exc)
               /\ inv[i].setStatus = 1
               /\ inv[i].recordException = <<inv[i].function.exc>>

\* C3: with no tracer and no meter execute_callable has exactly the outcome of
\* the handler (same value or same failure), calls the handler once and
\* directly, and calls no span API and no metric instrument API.
C3_PassThroughWhenUntraced ==
    \A i \in Invs :
        (Done(i) /\ inv[i].tracer.st = "None" /\ inv[i].meter.st = "None")
            => /\ inv[i].outcome = HandlerOutcome(inv[i].function)
               /\ inv[i].handlerCalls = 1
               /\ inv[i].spanStarts = 0 /\ inv[i].spanEnds = 0
               /\ inv[i].setStatus = 0 /\ inv[i].recordException = <<>>
               /\ inv[i].commits = <<>>
               /\ inv[i].adds = <<>> /\ inv[i].recs = <<>>
               /\ inv[i].trace = <<"handler">>

\* C3 witness: a finished call that saw neither tracer nor meter and whose
\* handler raised, the failure reaching the caller.
C3_Witness ==
    \E i \in Invs :
        /\ Done(i) /\ inv[i].tracer.st = "None" /\ inv[i].meter.st = "None"
        /\ inv[i].function.raises
        /\ inv[i].outcome.kind = "raise"

\* C4: a failure raised inside a profile processor never aborts the invocation:
\* the handler is still invoked and the caller receives the handler's own
\* result or the handler's own failure.
C4_TelemetryFailureContained ==
    \A i \in Invs :
        (Done(i) /\ inv[i].telemetryExc # NoExc)
            => /\ inv[i].handlerCalls = 1
               /\ inv[i].outcome = HandlerOutcome(inv[i].function)

\* C5: on an initialized context with the HTTP profile, one invocation makes
\* exactly one add(+1) and exactly one add(-1) on the active-request counter,
\* in that order, both with the same tags.
C5_CounterBalance ==
    \A i \in Invs :
        (Done(i) /\ inv[i].tracer.st = "set" /\ inv[i].meter.st = "set")
            => /\ Len(inv[i].adds) = 2
               /\ inv[i].adds[1].delta = 1
               /\ inv[i].adds[2].delta = -1
               /\ inv[i].adds[1].tags = inv[i].adds[2].tags

\* The invocations that have made their add(+1) and not yet their add(-1).
BetweenIncrementAndDecrement ==
    {i \in Invs : /\ inv[i].pc \notin {"idle", "done"}
                  /\ \E k \in 1..Len(inv[i].adds) : inv[i].adds[k].delta = 1
                  /\ \A k \in 1..Len(inv[i].adds) : inv[i].adds[k].delta # -1}

\* C6: the net value of the active-request counter is the number of
\* invocations between their increment and their decrement; it is never
\* negative and is zero once every invocation has finished.
C6_ActiveRequestsNet ==
    /\ active = Cardinality(BetweenIncrementAndDecrement)
    /\ active >= 0
    /\ (\A i \in Invs : inv[i].pc \in {"idle", "done"}) => active = 0

\* C7: the handler is invoked at most once per call of execute_callable, on
\* every path.
C7_HandlerAtMostOnce ==
    \A i \in Invs : inv[i].handlerCalls <= 1

\* C7 witness: a finished call on the metered path whose handler raised, the
\* handler having been invoked.
C7_Witness ==
    \E i \in Invs :
        /\ Done(i) /\ inv[i].meter.st = "set" /\ inv[i].function.raises
        /\ inv[i].handlerCalls = 1

\* C8: with a tracer the AttributeSet is committed to the span exactly once,
\* on the exit path, after success and after failure alike; the mapping
\* committed holds every key and value of the AttributeSet, so no processor
\* writes after the commit.
C8_CommitExactlyOnce ==
    \A i \in Invs :
        /\ Len(inv[i].commits) <= 1
        /\ Len(inv[i].commits) = 1 => inv[i].commits[1] = inv[i].attributes
        /\ (Done(i) /\ inv[i].tracer.st = "set") => Len(inv[i].commits) = 1
        /\ inv[i].tracer.st # "set" => inv[i].commits = <<>>
        /\ \A p, q \in 1..Len(inv[i].trace) :
               (inv[i].trace[p] \in {"request", "response"} /\ inv[i].trace[q] = "commit")
                   => p < q
        /\ (Len(inv[i].commits) = 1 /\ inv[i].meter.st = "set")
               => \E p \in 1..Len(inv[i].trace) : inv[i].trace[p] = "response"

\* C8 witness: a finished traced and metered call whose handler raised and
\* which committed an AttributeSet holding request and response attributes.
C8_Witness ==
    \E i \in Invs :
        /\ Done(i) /\ inv[i].tracer.st = "set"
        /\ inv[i].function.raises /\ inv[i].handlerCalls = 1
        /\ Len(inv[i].commits) = 1
        /\ http_attributes.HTTP_REQUEST_METHOD \in DOMAIN inv[i].commits[1]
        /\ http_attributes.HTTP_RESPONSE_STATUS_CODE \in DOMAIN inv[i].commits[1]

\* Every occurrence of a in the trace comes before every occurrence of b.
Ordered(t, a, b) ==
    \A p, q \in 1..Len(t) : (t[p] = a /\ t[q] = b) => p < q

\* C9: within one invocation request processing comes before the handler call
\* and before response processing, response processing before the commit, and
\* the commit before the span closes; a span never closes uncommitted.
C9_OrderingWithinInvocation ==
    \A i \in Invs :
        LET t == inv[i].trace
        IN  /\ Ordered(t, "request", "handler")
            /\ Ordered(t, "request", "response")
            /\ Ordered(t, "request", "commit")
            /\ Ordered(t, "response", "commit")
            /\ Ordered(t, "commit", "span_end")
            /\ "span_end" \in Range(t) => "commit" \in Range(t)

\* C9 witness: a finished call that went through every stage.
C9_Witness ==
    \E i \in Invs :
        /\ Done(i)
        /\ inv[i].trace =
               <<"span_start", "request", "handler", "response", "commit", "span_end">>

\* A step of invocation i that reads the shared context.
ReadsContext(i) ==
    /\ inv'[i] # inv[i]
    /\ \/ inv[i].pc \in {"idle", "measured", "response"}
       \/ inv[i].pc = "request" /\ inv[i].kwargs.hasEvent

\* C10: under any interleaving of initialize_opentelemetry with
\* execute_callable calls, no invocation reads a half-initialized context.
C10_NoHalfInitializedRead ==
    [][\A i \in Invs : ReadsContext(i) => ~HalfInitialized]_vars

\* The fields of the Execution Context that initialization is to replace.
InitializedFields ==
    {"tracer", "meter", "content_tracing_enabled", "meter_duration_histogram",
     "meter_active_requests_counter", "meter_request_body_size_histogram",
     "meter_response_body_size_histogram", "profile_processors"}

\* C11: re-initialization is a full replace: once initialize_opentelemetry has
\* returned, every field of the context that holds a value holds the one the
\* latest initialization gave it; no field keeps a value of an earlier one.
C11_ReinitFullReplace ==
    (init.pc = "idle" /\ inits > 0)
        => \A f \in InitializedFields : ctx[f].st = "set" => ctx[f].gen = inits

\* C12: without a meter _execute_measured calls the handler exactly once and
\* hands on what the handler gave (its value, or its exception), takes no
\* timestamp, calls no process_response, records into no histogram and makes
\* no counter decrement; the invocation ends with the handler's own outcome.
C12_NoMeterDirectCall ==
    \A i \in Invs :
        inv[i].meter.st = "None"
            => /\ inv[i].handlerCalls = 1
               /\ inv[i].pending = HandlerOutcome(inv[i].function)
               /\ inv[i].timeCalls = 0
               /\ inv[i].responseCalls = 0
               /\ \A k \in 1..Len(inv[i].trace) : inv[i].trace[k] # "response"
               /\ inv[i].recs = <<>>
               /\ \A k \in 1..Len(inv[i].adds) : inv[i].adds[k].delta # -1
               /\ Done(i) => inv[i].outcome = HandlerOutcome(inv[i].function)

\* An invocation with a tracer, processors and no meter has ended, the handler
\* having returned a structured response.
C12_Witness ==
    \E i \in Invs :
        /\ Done(i)
        /\ inv[i].meter.st = "None"
        /\ inv[i].tracer.st = "set"
        /\ inv[i].requestCalls > 0
        /\ ~inv[i].function.raises
        /\ inv[i].function.val.kind = "Response"
        /\ inv[i].outcome = Returned(inv[i].function.val)

\* The handler of invocation i failed on the path with a meter and the response
\* side has run.
FailedOnMeteredPath(i) ==
    /\ inv[i].meter.st = "set"
    /\ inv[i].function.raises
    /\ inv[i].handlerCalls = 1
    /\ inv[i].pc \in {"except", "finally", "close", "done"}
    /\ inv[i].timeCalls = 2

\* C13: when the handler fails on the path with a meter, process_response is
\* called once per processor with the synthetic Response(status_code=500), so
\* that http.response.status_code is 500 among the attributes, and then the
\* handler's own failure is raised again: the invocation ends with that
\* failure and never with the synthetic response.
C13_FailureOnMeteredPath ==
    \A i \in Invs :
        FailedOnMeteredPath(i)
            => /\ inv[i].res = Response(500, Headers(<<>>), PyNone, PyNone)
               /\ inv[i].pc # "done" => inv[i].responseCalls = Len(Processors(ctx))
               /\ inv[i].responseCalls > 0 =>
                      /\ http_attributes.HTTP_RESPONSE_STATUS_CODE \in DOMAIN inv[i].attributes
                      /\ inv[i].attributes[http_attributes.HTTP_RESPONSE_STATUS_CODE] = PyInt(500)
               /\ inv[i].pending = Raised(inv[i].function.exc)
               /\ Done(i) => inv[i].outcome = Raised(inv[i].function.exc)

\* The part of C13 on the processors alone.
C13_ProcessorsSeeStatus500 ==
    \A i \in Invs :
        FailedOnMeteredPath(i)
            => /\ inv[i].res = Response(500, Headers(<<>>), PyNone, PyNone)
               /\ inv[i].pc # "done" => inv[i].responseCalls = Len(Processors(ctx))
               /\ inv[i].responseCalls > 0 =>
                      /\ http_attributes.HTTP_RESPONSE_STATUS_CODE \in DOMAIN inv[i].attributes
                      /\ inv[i].attributes[http_attributes.HTTP_RESPONSE_STATUS_CODE] = PyInt(500)

\* C14: get_profiles gives ["http"] when OTEL_ENABLED_PROFILES is unset or
\* empty, and otherwise the names the value joins with commas, in their order.
C14_GetProfiles ==
    init.pc \in {"loop", "log"}
        => IF ~env.OTEL_ENABLED_PROFILES.set \/ env.OTEL_ENABLED_PROFILES.s = <<>>
           THEN init.profiles = << <<"h","t","t","p">> >>
           ELSE /\ \E names \in ProfileLists : Join(names) = env.OTEL_ENABLED_PROFILES.s
                /\ \A names \in ProfileLists :
                       Join(names) = env.OTEL_ENABLED_PROFILES.s => init.profiles = names

\* get_profiles has read a value of two names, the second one "http".
C14_Witness ==
    /\ init.pc = "loop"
    /\ env.OTEL_ENABLED_PROFILES = EnvValue(<<"x", ",", "h","t","t","p">>)
    /\ init.profiles = << <<"x">>, <<"h","t","t","p">> >>

\* get_profiles has read the empty string.
C14_WitnessEmpty ==
    /\ init.pc = "loop"
    /\ env.OTEL_ENABLED_PROFILES = EnvValue(<<>>)
    /\ init.profiles = << <<"h","t","t","p">> >>

\* The "http" entries of a list of profile names, in list order.
RECURSIVE HttpEntries(_)
HttpEntries(profiles) ==
    IF Len(profiles) = 0 THEN <<>>
    ELSE (IF profiles[1] = <<"h","t","t","p">> THEN <<"http">> ELSE <<>>)
         \o HttpEntries(Tail(profiles))

\* C15: whatever the list of enabled profiles, the processors list that
\* initialization stores holds one initialized HTTPProfileProcessor per entry
\* equal to "http", in order, and nothing for any other entry; an unknown name
\* stops nothing: the tracer and the meter obtained are stored and the call
\* goes on to its end.
C15_UnknownProfilesSkipped ==
    init.pc = "log"
        => /\ ctx.profile_processors = SetField(inits, HttpEntries(init.profiles))
           /\ Len(HttpEntries(init.profiles)) > 0 =>
                  ctx.content_tracing_enabled.st = "set" /\ ctx.content_tracing_enabled.gen = inits
           /\ init.tracer # NoneField => ctx.tracer = init.tracer
           /\ init.meter # NoneField => ctx.meter = init.meter

\* A list holding an unknown name and "http" has been stored.
C15_Witness ==
    /\ init.pc = "log"
    /\ \E k \in 1..Len(init.profiles) : init.profiles[k] = <<"x">>
    /\ \E k \in 1..Len(init.profiles) : init.profiles[k] = <<"h","t","t","p">>
    /\ ctx.profile_processors = SetField(inits, <<"http">>)
    /\ init.tracer # NoneField
    /\ init.meter # NoneField

\* n times the call name c.
RECURSIVE Repeat(_, _)
Repeat(c, n) == IF n = 0 THEN <<>> ELSE <<c>> \o Repeat(c, n - 1)

\* C16: when initialize_opentelemetry returns the context holds the tracer and
\* the meter it obtained and the processors list of this call; init_profile
\* was called once per processor of the list, all before the list was stored;
\* and the one log line of the call comes last, after the list was stored.
C16_InitializationOrder ==
    /\ infoLog = IF init.pc = "idle" THEN inits ELSE inits - 1
    /\ init.pc = "log"
           => /\ init.trace = <<"get_tracer", "get_meter">>
                                  \o Repeat("init_profile", Len(init.procs))
                                  \o <<"store">>
              /\ ctx.profile_processors = SetField(inits, init.procs)
              /\ init.tracer # NoneField => ctx.tracer = init.tracer
              /\ init.meter # NoneField => ctx.meter = init.meter
    /\ (init.pc = "idle" /\ inits > 0)
           => /\ ctx.profile_processors.st = "set"
              /\ ctx.profile_processors.gen = inits

\* A second initialization with two processors has returned.
C16_Witness ==
    /\ init.pc = "idle"
    /\ inits = 2
    /\ infoLog = 2
    /\ ctx.tracer = Handle(2)
    /\ ctx.meter = Handle(2)
    /\ ctx.profile_processors = SetField(2, <<"http", "http">>)

\* C17: get_tracer and get_meter are given one and the same name: the id of
\* ctx.run when the context has a run, and "serverless-function" when the
\* attribute is missing or holds None.
C17_OneInstrumentationName ==
    /\ init.pc # "idle"
           => init.tracer_name = IF ctx.run.st \in {"unset", "None"}
                                 THEN "serverless-function"
                                 ELSE ctx.run.val
    /\ init.pc \in {"profiles", "loop", "log"} => init.meter_name = init.tracer_name

\* The tracer and the meter have been obtained on a context with a run.
C17_Witness ==
    /\ init.pc = "profiles"
    /\ ctx.run = SetField(0, "run-1")
    /\ init.tracer_name = "run-1"
    /\ init.meter_name = "run-1"

\* The tracer and the meter have been obtained on a context whose run is None.
C17_WitnessNoRun ==
    /\ init.pc = "profiles"
    /\ ctx.run.st = "None"
    /\ init.tracer_name = "serverless-function"
    /\ init.meter_name = "serverless-function"

\* The request side of invocation i has run to its end on an event with a
\* non-empty body, and the invocation is still running.
RequestSideDone(i) ==
    /\ inv[i].pc \in {"measured", "response"}
    /\ inv[i].requestCalls > 0
    /\ Truthy(inv[i].kwargs.event.body)

\* The response side of invocation i has run to its end on a response with a
\* non-empty body, and the invocation is still running.
ResponseSideDone(i) ==
    /\ inv[i].pc \in {"finally", "close"}
    /\ inv[i].responseCalls > 0
    /\ inv[i].telemetryExc = NoExc
    /\ Truthy(IF inv[i].res.kind = "Response" THEN inv[i].res.body ELSE inv[i].res.raw)

\* C18: with a non-empty body, the body-value attribute is among the
\* attributes exactly when the content-tracing flag of the context is true,
\* on the request side as on the response side, and the body-size attribute
\* is there whatever the flag.
C18_ContentTracingGating ==
    \A i \in Invs :
        /\ RequestSideDone(i)
               => /\ HTTP_REQUEST_BODY_SIZE \in DOMAIN inv[i].attributes
                  /\ HTTP_REQUEST_BODY_VALUE \in DOMAIN inv[i].attributes <=> ContentFlag(ctx)
        /\ ResponseSideDone(i)
               => /\ HTTP_RESPONSE_BODY_SIZE \in DOMAIN inv[i].attributes
                  /\ HTTP_RESPONSE_BODY_VALUE \in DOMAIN inv[i].attributes <=> ContentFlag(ctx)

\* The response-side half of C18, and the size attribute of the request side.
C18_ResponseSideGating ==
    \A i \in Invs :
        /\ RequestSideDone(i) => HTTP_REQUEST_BODY_SIZE \in DOMAIN inv[i].attributes
        /\ ResponseSideDone(i)
               => /\ HTTP_RESPONSE_BODY_SIZE \in DOMAIN inv[i].attributes
                  /\ HTTP_RESPONSE_BODY_VALUE \in DOMAIN inv[i].attributes <=> ContentFlag(ctx)

\* The request side follows the environment as it is when the request arrives.
C18_RequestSideFollowsEnv ==
    \A i \in Invs :
        RequestSideDone(i)
            => (HTTP_REQUEST_BODY_VALUE \in DOMAIN inv[i].attributes
                    <=> is_content_tracing_enabled(env))

\* The attributes process_response may add for a raw value.
RawResponseKeys ==
    {http_attributes.HTTP_RESPONSE_STATUS_CODE, HTTP_RESPONSE_BODY_SIZE,
     HTTP_RESPONSE_BODY_VALUE}

Projection(tags, attributes, names) ==
    /\ DOMAIN tags = DOMAIN attributes \cap Range(names)
    /\ \A k \in DOMAIN tags : tags[k] = attributes[k]

\* C20: _filter_attrs is a projection: the tags given to the counter and to
\* the histograms hold exactly the attributes whose name is in the list, each
\* with its value; a listed name that is not among the attributes is left out
\* and never appears with a null value.
C20_FilterAttrsProjection ==
    \A i \in Invs :
        /\ \A k \in 1..Len(inv[i].adds) :
               /\ Projection(inv[i].adds[k].tags, inv[i].attributes,
                             ACTIVE_REQUEST_COUNTER_ATTRS)
               /\ \A n \in DOMAIN inv[i].adds[k].tags : inv[i].adds[k].tags[n] # PyNone
        /\ \A k \in 1..Len(inv[i].recs) :
               /\ Projection(inv[i].recs[k].tags, inv[i].attributes, DURATION_ATTRS)
               /\ \A n \in DOMAIN inv[i].recs[k].tags : inv[i].recs[k].tags[n] # PyNone

\* A histogram was given tags where a listed name (server.address) is missing
\* while another (http.request.method) is there, and the attributes hold names
\* outside the list.
C20_Witness ==
    \E i \in Invs :
        /\ Len(inv[i].recs) > 0
        /\ Len(inv[i].adds) > 1
        /\ server_attributes.SERVER_ADDRESS \notin DOMAIN inv[i].attributes
        /\ http_attributes.HTTP_REQUEST_METHOD \in DOMAIN inv[i].recs[1].tags
        /\ DOMAIN inv[i].attributes \ Range(DURATION_ATTRS) # {}
        /\ DOMAIN inv[i].recs[1].tags # {}

\* The request side of invocation i has run on an event without a URL.
NoUrlRequest(i) ==
    /\ inv[i].requestCalls > 0
    /\ inv[i].kwargs.hasEvent
    /\ ~Truthy(inv[i].kwargs.event.url)

\* C21: for an event without a URL process_request sets url.path and
\* http.route to the event's path (the empty string when there is none),
\* url.scheme to "http" and url.full to the empty string, and sets neither
\* server.address nor server.port nor url.query.
C21_UrlAbsentFallback ==
    \A i \in Invs :
        NoUrlRequest(i)
            => /\ inv[i].attributes[url_attributes.URL_PATH]
                     = IF inv[i].kwargs.event.path = PyNone THEN PyStr(<<>>)
                       ELSE inv[i].kwargs.event.path
               /\ inv[i].attributes[http_attributes.HTTP_ROUTE]
                     = IF inv[i].kwargs.event.path = PyNone THEN PyStr(<<>>)
                       ELSE inv[i].kwargs.event.path
               /\ inv[i].attributes[url_attributes.URL_SCHEME] = PyStr(<<"h","t","t","p">>)
               /\ inv[i].attributes[url_attributes.URL_FULL] = PyStr(<<>>)
               /\ DOMAIN inv[i].attributes
                      \cap {server_attributes.SERVER_ADDRESS, server_attributes.SERVER_PORT,
                            url_attributes.URL_QUERY} = {}

\* An invocation on an event with neither URL nor path has ended.
C21_Witness ==
    \E i \in Invs :
        /\ Done(i)
        /\ NoUrlRequest(i)
        /\ inv[i].kwargs.event.url = PyNone
        /\ inv[i].kwargs.event.path = PyNone
        /\ inv[i].attributes[url_attributes.URL_PATH] = PyStr(<<>>)

\* An invocation on an event with a path and no URL has ended.
C21_WitnessPath ==
    \E i \in Invs :
        /\ Done(i)
        /\ NoUrlRequest(i)
        /\ inv[i].kwargs.event.url = PyNone
        /\ inv[i].attributes[url_attributes.URL_PATH] = PyStr(<<"/","t">>)

\* The names process_response writes and process_request does not.
ResponseNames ==
    {http_attributes.HTTP_RESPONSE_STATUS_CODE[1], HTTP_RESPONSE_BODY_SIZE[1],
     HTTP_RESPONSE_SIZE[1], HTTP_RESPONSE_BODY_VALUE[1],
     http_attributes.HTTP_RESPONSE_HEADER_TEMPLATE}

\* What process_request wrote: the attributes without those of the response.
RequestPart(attributes) ==
    [k \in {x \in DOMAIN attributes : x[1] \notin ResponseNames} |-> attributes[k]]

\* Invocations i and j both ran process_request on one and the same event and
\* on the context as one initialization left it.
SameRequest(i, j) ==
    /\ i # j
    /\ inits = 1
    /\ inv[i].requestCalls > 0
    /\ inv[j].requestCalls > 0
    /\ inv[i].kwargs = inv[j].kwargs

\* C22: for one event and one context, process_request writes the same
\* mapping into the fresh AttributeSet of each invocation, whatever ran in
\* between.
C22_AttributeDeterminism ==
    \A i, j \in Invs :
        SameRequest(i, j)
            => RequestPart(inv[i].attributes) = RequestPart(inv[j].attributes)

\* Apart from http.request.body.value the two mappings are the same.
C22_SameButBodyValue ==
    \A i, j \in Invs :
        SameRequest(i, j)
            => \A k \in (DOMAIN RequestPart(inv[i].attributes)
                           \cup DOMAIN RequestPart(inv[j].attributes))
                            \ {HTTP_REQUEST_BODY_VALUE} :
                   /\ k \in DOMAIN inv[i].attributes
                   /\ k \in DOMAIN inv[j].attributes
                   /\ inv[i].attributes[k] = inv[j].attributes[k]

\* Invocation i has just run process_request on an event whose only header is
\* X-Forwarded-Port with the characters v as its value.
ForwardedPortRequest(i, v) ==
    /\ inv[i].pc \in {"measured", "except"}
    /\ inv[i].requestCalls > 0
    /\ inv[i].responseCalls = 0
    /\ inv[i].kwargs.event.headers
           = Headers(<<[k |-> HeaderName.XForwardedPort, v |-> PyStr(v)]>>)

\* What the request side does with the same event without the header.
WithoutForwardedPort(i) ==
    module_process_request(Work(EmptyAttrs),
                           [inv[i].kwargs.event EXCEPT !.headers = Headers(<<>>)],
                           ctx, is_content_tracing_enabled(env))

\* The attributes of invocation i without the two that come from the header.
ButForwardedPort(attributes) ==
    [k \in DOMAIN attributes
              \ {network_attributes.NETWORK_PEER_PORT,
                 HeaderKey(http_attributes.HTTP_REQUEST_HEADER_TEMPLATE,
                           HeaderName.XForwardedPort)} |-> attributes[k]]

\* C23: an X-Forwarded-Port value that int() does not accept is no error:
\* process_request ends as it does without the header, network.peer.port is
\* not among the attributes and every other attribute is as without the
\* header; a value that int() accepts gives network.peer.port that integer.
C23_ForwardedPort ==
    \A i \in Invs :
        /\ \A v \in {<<"x">>, <<"8","0","a">>} :
               ForwardedPortRequest(i, v)
                   => /\ network_attributes.NETWORK_PEER_PORT \notin DOMAIN inv[i].attributes
                      /\ inv[i].telemetryExc = WithoutForwardedPort(i).exc
                      /\ ButForwardedPort(inv[i].attributes) = WithoutForwardedPort(i).attrs
        /\ \A v \in {<<"8","0">>, <<" ","8","_","0">>} :
               (ForwardedPortRequest(i, v) /\ inv[i].pc = "measured")
                   => /\ inv[i].attributes[network_attributes.NETWORK_PEER_PORT] = PyInt(80)
                      /\ ButForwardedPort(inv[i].attributes) = WithoutForwardedPort(i).attrs

\* process_request has ended normally on a header value that is no integer,
\* with the header itself among the attributes.
C23_Witness ==
    \E i \in Invs :
        /\ ForwardedPortRequest(i, <<"8","0","a">>)
        /\ inv[i].pc = "measured"
        /\ inv[i].telemetryExc = NoExc
        /\ HeaderKey(http_attributes.HTTP_REQUEST_HEADER_TEMPLATE, HeaderName.XForwardedPort)
               \in DOMAIN inv[i].attributes
        /\ server_attributes.SERVER_PORT \in DOMAIN inv[i].attributes

\* process_request has ended on a header value int() accepts.
C23_WitnessInteger ==
    \E i \in Invs :
        /\ ForwardedPortRequest(i, <<" ","8","_","0">>)
        /\ inv[i].pc = "measured"
        /\ inv[i].attributes[network_attributes.NETWORK_PEER_PORT] = PyInt(80)

\* The number of entries of the call trace t equal to c.
RECURSIVE Count(_, _)
Count(t, c) ==
    IF Len(t) = 0 THEN 0 ELSE (IF t[1] = c THEN 1 ELSE 0) + Count(Tail(t), c)

\* C24: on a context with a tracer, _process_request is called once when
\* "event" is among the keyword arguments and not at all otherwise; either way
\* _execute_measured is called exactly once (and with it the handler), on the
\* AttributeSet of the invocation, and what is committed to the span is that
\* same AttributeSet.
C24_RequestIffEvent ==
    \A i \in Invs :
        (Done(i) /\ inv[i].tracer.st = "set")
            => /\ Count(inv[i].trace, "request") = IF inv[i].kwargs.hasEvent THEN 1 ELSE 0
               /\ ~inv[i].kwargs.hasEvent => inv[i].requestCalls = 0
               /\ inv[i].handlerCalls = 1
               /\ Count(inv[i].trace, "handler") = 1
               /\ inv[i].commits = <<inv[i].attributes>>

\* C24 but for the call of _execute_measured, which is made when
\* _process_request raised nothing.
C24_ButMeasuredCall ==
    \A i \in Invs :
        (Done(i) /\ inv[i].tracer.st = "set")
            => /\ Count(inv[i].trace, "request") = IF inv[i].kwargs.hasEvent THEN 1 ELSE 0
               /\ ~inv[i].kwargs.hasEvent => inv[i].requestCalls = 0
               /\ inv[i].handlerCalls =
                      IF "response" \notin Range(inv[i].trace) /\ inv[i].telemetryExc # NoExc
                      THEN 0 ELSE 1
               /\ inv[i].commits = <<inv[i].attributes>>

\* Invocation i took the path with a meter and _execute_measured has ended;
\* the invocation is still running, so that the context is as it was.
MeteredPathDone(i) ==
    /\ inv[i].meter.st = "set"
    /\ inv[i].pc \in {"except", "finally", "close"}
    /\ inv[i].handlerCalls > 0

\* C25: with a meter _execute_measured calls the handler exactly once and
\* then, whether the handler returned or raised, runs _process_response
\* exactly once, in which every processor of the context's list gets one
\* process_response call; the start time is read before the handler is called
\* and the end time after it.
C25_ResponseProcessingOnce ==
    \A i \in Invs :
        MeteredPathDone(i)
            => /\ inv[i].handlerCalls = 1
               /\ Count(inv[i].trace, "response") = 1
               /\ Ordered(inv[i].trace, "handler", "response")
               /\ inv[i].clockReads = <<0, 1>>
               /\ inv[i].end_time = inv[i].start_time + inv[i].function.dur
               /\ inv[i].res = MeasuredRes(inv[i].function)
               /\ inv[i].responseCalls = Len(Processors(ctx))

\* C25 but for the processors that come after one that raised.
C25_ButAfterFailure ==
    \A i \in Invs :
        MeteredPathDone(i)
            => /\ inv[i].handlerCalls = 1
               /\ Count(inv[i].trace, "response") = 1
               /\ Ordered(inv[i].trace, "handler", "response")
               /\ inv[i].clockReads = <<0, 1>>
               /\ inv[i].end_time = inv[i].start_time + inv[i].function.dur
               /\ inv[i].res = MeasuredRes(inv[i].function)
               /\ inv[i].telemetryExc = NoExc => inv[i].responseCalls = Len(Processors(ctx))
               /\ inv[i].telemetryExc # NoExc => inv[i].responseCalls <= Len(Processors(ctx))

\* The records made into the instrument name, in order.
RECURSIVE RecordsOf(_, _)
RecordsOf(recs, name) ==
    IF Len(recs) = 0 THEN <<>>
    ELSE (IF recs[1].inst = name THEN <<[value |-> recs[1].value, tags |-> recs[1].tags]>>
          ELSE <<>>) \o RecordsOf(Tail(recs), name)

\* process_response has run to its end in invocation i, once per processor,
\* on a context that holds the three histograms.
ResponseRecorded(i) ==
    /\ inv[i].responseCalls > 0
    /\ inv[i].telemetryExc = NoExc
    /\ ctx.meter_duration_histogram.st = "set"
    /\ ctx.meter_request_body_size_histogram.st = "set"
    /\ ctx.meter_response_body_size_histogram.st = "set"

\* The records of the attribute key: one per process_response call when the
\* attribute is there, none otherwise.
SizeRecords(i, key) ==
    IF key \in DOMAIN inv[i].attributes
    THEN Repeat([value |-> inv[i].attributes[key].i,
                 tags |-> FilterAttrs(inv[i].attributes, DURATION_ATTRS)],
                inv[i].responseCalls)
    ELSE <<>>

\* C26: each process_response call records end_time - start_time into the
\* duration histogram exactly once, tagged with the attributes named in
\* DURATION_ATTRS; it records http.request.body.size into the request-body-size
\* histogram exactly once when that attribute is there and not at all
\* otherwise, and the same for http.response.body.size and the
\* response-body-size histogram, all with the same tags.
C26_HistogramRecords ==
    \A i \in Invs :
        ResponseRecorded(i)
            => /\ RecordsOf(inv[i].recs, "duration")
                     = Repeat([value |-> inv[i].end_time - inv[i].start_time,
                               tags |-> FilterAttrs(inv[i].attributes, DURATION_ATTRS)],
                              inv[i].responseCalls)
               /\ RecordsOf(inv[i].recs, "request_size") = SizeRecords(i, HTTP_REQUEST_BODY_SIZE)
               /\ RecordsOf(inv[i].recs, "response_size") = SizeRecords(i, HTTP_RESPONSE_BODY_SIZE)
               /\ Len(inv[i].recs) = Len(RecordsOf(inv[i].recs, "duration"))
                                       + Len(RecordsOf(inv[i].recs, "request_size"))
                                       + Len(RecordsOf(inv[i].recs, "response_size"))

\* One process_response call has recorded a duration of 2, a request body of
\* 4 bytes and a response body of 2 bytes.
C26_Witness ==
    \E i \in Invs :
        /\ ResponseRecorded(i)
        /\ inv[i].responseCalls = 1
        /\ Len(inv[i].recs) = 3
        /\ inv[i].recs[1].value = 2
        /\ inv[i].recs[2].value = 4
        /\ inv[i].recs[3].value = 2

\* process_response has run on attributes without http.request.body.size and
\* recorded nothing into the request-body-size histogram.
C26_WitnessNoRequestBody ==
    \E i \in Invs :
        /\ ResponseRecorded(i)
        /\ inv[i].requestCalls > 0
        /\ HTTP_REQUEST_BODY_SIZE \notin DOMAIN inv[i].attributes
        /\ RecordsOf(inv[i].recs, "request_size") = <<>>
        /\ RecordsOf(inv[i].recs, "response_size") # <<>>

\* C27: no step of an invocation (request processing, the handler call inside
\* _execute_measured, response processing, the except and finally clauses, the
\* end of the span) writes a field of the context: the context changes only
\* in a step of initialize_opentelemetry, which is no step of an invocation.
C27_ContextReadOnly ==
    [][/\ inv' # inv => ctx' = ctx
       /\ ctx' # ctx => (init' # init /\ inv' = inv)]_vars

\* An invocation that ran request and response processing has ended with a
\* failure, on the context as its initialization left it.
C27_Witness ==
    \E i \in Invs :
        /\ Done(i)
        /\ inits = 1
        /\ init.pc = "idle"
        /\ inv[i].requestCalls > 0
        /\ inv[i].responseCalls > 0
        /\ inv[i].outcome.kind = "raise"
        /\ ctx.profile_processors = SetField(1, <<"http">>)
        /\ ctx.meter_duration_histogram = Handle(1)

\* What the request side writes and records for invocation i alone, from an
\* empty AttributeSet and the event of i.
OwnRequest(i) ==
    IF inv[i].tracer.st = "set" /\ inv[i].kwargs.hasEvent
    THEN module_process_request(Work(EmptyAttrs), inv[i].kwargs.event, ctx,
                                is_content_tracing_enabled(env))
    ELSE Work(EmptyAttrs)

\* What the response side adds to it, from the handler result of i.
OwnResponse(i, w) ==
    IF w.exc # NoExc \/ inv[i].meter.st # "set" THEN w
    ELSE module_process_response(w, MeasuredRes(inv[i].function), 0,
                                 inv[i].function.dur, ctx)

\* C28: every call of execute_callable starts from its own empty
\* AttributeSet; under any interleaving of the invocations that share the
\* context, what an invocation commits to its span and the tags of the
\* counter and histogram calls it makes are those its own event and its own
\* response give, whatever the other invocations are doing.
C28_InvocationIsolation ==
    \A i \in Invs :
        /\ inv[i].pc = "idle" => inv[i].attributes = EmptyAttrs
        /\ inv[i].pc = "request" => inv[i].attributes = EmptyAttrs
        /\ inv[i].pc = "close"
               => /\ inv[i].commits = <<OwnResponse(i, OwnRequest(i)).attrs>>
                  /\ inv[i].adds = OwnResponse(i, OwnRequest(i)).adds
                  /\ inv[i].recs = OwnResponse(i, OwnRequest(i)).recs

\* Invocation 1 has committed its attributes and made its records while
\* invocation 2, on another event and with another handler, is between its
\* request side and its response side.
C28_Witness ==
    /\ inv[1].pc = "close"
    /\ inv[2].pc = "response"
    /\ inv[1].kwargs = [hasEvent |-> TRUE, event |-> EventGetFull]
    /\ inv[2].kwargs = [hasEvent |-> TRUE, event |-> EventPostNoUrl]
    /\ inv[1].function # inv[2].function
    /\ Len(inv[1].recs) = 3
    /\ Len(inv[2].adds) = 1
    /\ inv[1].commits # <<inv[2].attributes>>

\* C29: every value process_request or process_response writes into the
\* AttributeSet is a scalar (a str, a number or a byte sequence) and never
\* None, whatever the shape of the URL and whatever the response.
C29_ScalarAttributeValues ==
    \A i \in Invs :
        \A k \in DOMAIN inv[i].attributes :
            inv[i].attributes[k].t \in {"str", "bytes", "int"}

\* The two attributes that can hold None: server.address, for a URL without a
\* host, and http.response.body.value, for a handler that returned None with
\* content tracing enabled.  Every other value is a scalar.
C29_ScalarButTwo ==
    \A i \in Invs :
        \A k \in DOMAIN inv[i].attributes
                   \ {server_attributes.SERVER_ADDRESS, HTTP_RESPONSE_BODY_VALUE} :
            inv[i].attributes[k].t \in {"str", "bytes", "int"}

C30_WitnessNoTracer ==
    \E i \in Invs :
        /\ Done(i)
        /\ inv[i].tracer.st = "None"
        /\ inv[i].meter.st = "set"
        /\ inv[i].spanStarts = 0
====
